---- MODULE Spec2Model ----
(***************************************************************************)
(* Model of the Dentist Website API (src/main.py): the three request       *)
(* handlers register_user, login_user and book_appointment, the two        *)
(* tables of the external record store they read and write (users,         *)
(* appointments) and the external calendar book_appointment mirrors        *)
(* bookings into.                                                          *)
(*                                                                         *)
(* A handler is a sequence of steps, one per call to an external service   *)
(* (a store query, a store insert, the calendar call); the local           *)
(* computation between two external calls belongs to the step of the call  *)
(* that follows or precedes it.  Handlers of different requests interleave *)
(* at these steps.                                                         *)
(***************************************************************************)
EXTENDS Integers, Sequences, FiniteSets, TLC

\* ------------------------------------------------------------------ bounds
NumProcs == 2
MaxUsers == 2
MaxAppts == 2
MaxSalt == 2

Procs == 1..NumProcs

\* Python's None.  Optional values are tuples, so that None compares with them.
None == <<>>

\* ------------------------------------------------------------------ inputs
\* Email addresses as sequences of character codes: "J@x", "j@x", "b@x".
Emails == { <<74, 64, 120>>, <<106, 64, 120>>, <<98, 64, 120>> }
Passwords == { "secret1", "hunter22" }
FullNames == { "Jane Doe" }

\* appointment_date as <<year, month, day>>; 2026-02-30 is no calendar date.
Dates == { <<2026, 3, 10>>, <<2026, 2, 30>> }
\* appointment_time as <<hour digits, minute digits>>: "10:00", "23:30", "25:99".
Times == { << <<1, 0>>, <<0, 0>> >>, << <<2, 3>>, <<3, 0>> >>, << <<2, 5>>, <<9, 9>> >> }

\* What a record store call can do: answer, raise, or (an insert) answer
\* with no inserted row.
StoreOk == { "ok" }
StoreAny == { "ok", "raise", "nodata" }
StoreErrorText == "APIError: connection to the record store failed"

\* What the calendar can do during one booking.
CalendarOutcomes == { "no_file", "auth_error", "insert_error", "created" }

\* ------------------------------------------------------------ pure helpers
\* str.lower() on an address: the case-insensitive identity of an email.
Lower(s) == [i \in DOMAIN s |-> IF s[i] >= 65 /\ s[i] <= 90 THEN s[i] + 32 ELSE s[i]]

\* bcrypt.hashpw(password, salt): the salt travels in the hash; the digest is
\* an injective function of (salt, password).
hashpw(password, salt) ==
    [prefix |-> "$2b$", salt |-> salt, digest |-> <<salt, password>>]

\* bcrypt.gensalt(): a fresh random salt.
gensalt == 1..MaxSalt

\* get_password_hash(password): one hash per salt gensalt may draw.
get_password_hash(password) == { hashpw(password, s) : s \in gensalt }

\* A password_hash column value bcrypt did not produce (an imported account).
MalformedHash == [prefix |-> "plain", salt |-> 0, digest |-> <<0, "secret1">>]

\* bcrypt.checkpw(password, hashed): raises ValueError("Invalid salt") when
\* hashed is no bcrypt string, else re-hashes with the salt in hashed.
checkpw(password, hashed) ==
    IF hashed.prefix # "$2b$"
    THEN [raised |-> TRUE, value |-> FALSE, text |-> "Invalid salt"]
    ELSE [raised |-> FALSE, value |-> hashpw(password, hashed.salt) = hashed, text |-> ""]

\* Mutant: the result of checkpw is dropped and every password passes.
verify_password_AlwaysTrue(plain_password, hashed_password) ==
    [checkpw(plain_password, hashed_password) EXCEPT !.value = TRUE]

verify_password(plain_password, hashed_password) ==
    checkpw(plain_password, hashed_password)

\* --- datetime.strptime(f"{date} {time}", "%Y-%m-%d %H:%M")
DigitsValue(ds) == IF Len(ds) = 1 THEN ds[1] ELSE 10 * ds[1] + ds[2]

IsLeap(y) == (y % 4 = 0 /\ y % 100 # 0) \/ y % 400 = 0

DaysIn(y, m) ==
    IF m = 2 THEN (IF IsLeap(y) THEN 29 ELSE 28)
    ELSE IF m \in {4, 6, 9, 11} THEN 30 ELSE 31

\* TRUE when strptime raises ValueError.
strptime_raises(date, time) ==
    \/ date[2] < 1 \/ date[2] > 12
    \/ date[3] < 1 \/ date[3] > DaysIn(date[1], date[2])
    \/ ~(Len(time[1]) \in {1, 2}) \/ DigitsValue(time[1]) > 23
    \/ ~(Len(time[2]) \in {1, 2}) \/ DigitsValue(time[2]) > 59

\* The parsed instant, localized to Asia/Kolkata (a fixed +05:30 offset).
strptime(date, time) ==
    [year |-> date[1], month |-> date[2], day |-> date[3],
     hour |-> DigitsValue(time[1]), minute |-> DigitsValue(time[2]),
     offset |-> "+05:30"]

\* dt + datetime.timedelta(hours=1)
PlusOneHour(dt) ==
    IF dt.hour < 23 THEN [dt EXCEPT !.hour = dt.hour + 1]
    ELSE IF dt.day < DaysIn(dt.year, dt.month)
         THEN [dt EXCEPT !.hour = 0, !.day = dt.day + 1]
    ELSE IF dt.month < 12
         THEN [dt EXCEPT !.hour = 0, !.day = 1, !.month = dt.month + 1]
    ELSE [dt EXCEPT !.hour = 0, !.day = 1, !.month = 1, !.year = dt.year + 1]

\* dt.strftime("%H:%M"): two digits each.
strftime_HM(dt) ==
    << <<dt.hour \div 10, dt.hour % 10>>, <<dt.minute \div 10, dt.minute % 10>> >>

\* Python truthiness of google_event_id (None and "" are false).
Truthy(v) == v # None /\ v # <<"">>

\* ------------------------------------------------------------------- state
VARIABLES
    users,          \* the store's "users" table, in insertion order
    appointments,   \* the store's "appointments" table, in insertion order
    calendar,       \* the events of the external calendar, in creation order
    call            \* per request slot: the handler running there and its locals

vars == <<users, appointments, calendar, call>>

NoResp == [status |-> 0]

IdleCall ==
    [handler |-> "none", pc |-> "idle", req |-> None, existing |-> <<>>,
     hashed_pwd |-> None, google_event_id |-> None, cal |-> "none",
     resp |-> NoResp, steps |-> <<>>, exc |-> None]

\* A request slot takes a new request once the previous response is out.
Free(p) == call[p].pc \in {"idle", "done"}

\* The handler of slot p ends with response r (exc: the internal exception
\* it caught, None when it caught none).
Finish(p, handler, req, steps, r, exc) ==
    call' = [call EXCEPT ![p] =
                [IdleCall EXCEPT !.handler = handler, !.pc = "done", !.req = req,
                                 !.steps = steps, !.resp = r, !.exc = exc]]

\* An account some earlier import wrote to the store: its password_hash is
\* not a bcrypt string.
ImportedUser ==
    [id |-> 1, full_name |-> "Bob Roe", email |-> <<98, 64, 120>>,
     password_hash |-> MalformedHash]

Init ==
    /\ users \in { <<>>, <<ImportedUser>> }
    /\ appointments = <<>>
    /\ calendar = <<>>
    /\ call = [p \in Procs |-> IdleCall]

\* ------------------------------------------------------ account handlers
\* Mutant: the lookup filters with .neq in place of .eq.
SelectUsers_Neq(table, email) == SelectSeq(table, LAMBDA r : r.email # email)

\* supabase.table("users").select(...).eq("email", email).execute().data
SelectUsers(table, email) == SelectSeq(table, LAMBDA r : r.email = email)

\* if existing.data:
EmailTaken(existing) == existing # <<>>

\* register_user's and login_user's handler of an unexpected exception:
\* HTTPException(status_code=500, detail=str(e)).
register_user_except(text) == [status |-> 500, detail |-> <<text>>]

login_user_except(text) == [status |-> 500, detail |-> <<text>>]

UserRegisterInputs ==
    [full_name : FullNames, email : Emails, password : Passwords]

UserLoginInputs == [email : Emails, password : Passwords]

\* Register calls past their lookup, about to insert.
RegisterInFlight == Cardinality({ q \in Procs : call[q].pc = "reg_insert" })

\* register_user, step 1: the lookup by email, then (locally) the hash.
register_user_select(p, user, out) ==
    /\ Free(p)
    /\ out \in {"ok", "raise"}
    /\ LET existing == SelectUsers(users, user.email)
           steps == <<"select">>
       IN  /\ (out = "ok" /\ ~EmailTaken(existing))
                  => Len(users) + RegisterInFlight < MaxUsers
           /\ IF out = "raise"
              THEN Finish(p, "register", user, steps,
                          register_user_except(StoreErrorText), <<StoreErrorText>>)
              ELSE IF EmailTaken(existing)
              THEN Finish(p, "register", user, steps,
                          [status |-> 400, detail |-> <<"Email already registered">>],
                          None)
              ELSE \E h \in get_password_hash(user.password) :
                      call' = [call EXCEPT ![p] =
                                 [IdleCall EXCEPT !.handler = "register",
                                                  !.pc = "reg_insert", !.req = user,
                                                  !.hashed_pwd = h, !.steps = steps]]
    /\ UNCHANGED <<users, appointments, calendar>>

\* register_user, step 2: the insert and the response.
register_user_insert(p, out) ==
    /\ call[p].pc = "reg_insert"
    /\ LET user == call[p].req
           steps == Append(call[p].steps, "insert")
           user_data == [id |-> Len(users) + 1, full_name |-> user.full_name,
                         email |-> user.email,
                         password_hash |-> call[p].hashed_pwd]
       IN  IF out = "raise"
           THEN /\ Finish(p, "register", user, steps,
                          register_user_except(StoreErrorText), <<StoreErrorText>>)
                /\ UNCHANGED users
           ELSE IF out = "nodata"
           THEN /\ Finish(p, "register", user, steps,
                          [status |-> 500, detail |-> <<"Failed to register user">>],
                          None)
                /\ UNCHANGED users
           ELSE /\ users' = Append(users, user_data)
                /\ Finish(p, "register", user, steps,
                          [status |-> 201, message |-> "User registered successfully",
                           email |-> user.email], None)
    /\ UNCHANGED <<appointments, calendar>>

\* login_user: the lookup, then (locally) the password check and the response.
login_user(p, user, out) ==
    /\ Free(p)
    /\ out \in {"ok", "raise"}
    /\ LET data == SelectUsers(users, user.email)
           steps == <<"select">>
           denied == [status |-> 401, detail |-> <<"Invalid email or password">>]
       IN  IF out = "raise"
           THEN Finish(p, "login", user, steps,
                       login_user_except(StoreErrorText), <<StoreErrorText>>)
           ELSE IF data = <<>>
           THEN Finish(p, "login", user, steps, denied, None)
           ELSE LET user_record == data[1]
                    v == verify_password(user.password, user_record.password_hash)
                IN  IF v.raised
                    THEN Finish(p, "login", user, steps,
                                login_user_except(v.text), <<v.text>>)
                    ELSE IF ~v.value
                    THEN Finish(p, "login", user, steps, denied, None)
                    ELSE Finish(p, "login", user, steps,
                                [status |-> 200, message |-> "Login successful",
                                 user_id |-> user_record.id,
                                 email |-> user_record.email], None)
    /\ UNCHANGED <<users, appointments, calendar>>

\* ------------------------------------------------------- booking handler
AppointmentInputs ==
    { [appointment_date |-> d, appointment_time |-> t] : d \in Dates, t \in Times }

\* Mutant: the query without its .neq("status", "cancelled") filter.
SelectAppointments_AnyStatus(table, d, t) ==
    SelectSeq(table, LAMBDA r : /\ r.appointment_date = d
                                /\ r.appointment_time = t)

\* supabase.table("appointments").select("*").eq("appointment_date", d)
\*     .eq("appointment_time", t).neq("status", "cancelled").execute().data
SelectAppointments(table, d, t) ==
    SelectSeq(table, LAMBDA r : /\ r.appointment_date = d
                                /\ r.appointment_time = t
                                /\ r.status # "cancelled")

\* Mutant: the conflict check's result is ignored.
SlotTaken_Never(existing_appt) == FALSE

\* if existing_appt.data:
SlotTaken(existing_appt) == existing_appt # <<>>

\* The HTTPException raised when the slot is taken.
ConflictResponse(appt, start_dt) ==
    [status |-> 400,
     detail |-> <<"Time slot", appt.appointment_time,
                  "is already booked. Please try",
                  strftime_HM(PlusOneHour(start_dt)), "or another time.">>]

\* book_appointment's handler of an unexpected exception.
book_appointment_except(text) ==
    [status |-> 500, detail |-> <<"Internal server error">>]

\* get_calendar_service(): None when the service account file is missing or
\* the credentials do not load, else the service.
get_calendar_service(c) ==
    IF c \in {"no_file", "auth_error"} THEN None ELSE <<"service">>

\* Mutant: the row is confirmed whether or not an event was created.
AppointmentStatus_AlwaysConfirmed(google_event_id) == "confirmed"

\* "confirmed" if google_event_id else "pending"
AppointmentStatus(google_event_id) ==
    IF Truthy(google_event_id) THEN "confirmed" ELSE "pending"

\* The google_event_link of the success response.
EventLink(google_event_id) ==
    IF Truthy(google_event_id)
    THEN <<"https://www.google.com/calendar/event?eid=", google_event_id>>
    ELSE None

\* Book calls past their conflict check that have not inserted yet.
BookInFlight ==
    Cardinality({ q \in Procs : call[q].pc \in {"book_calendar", "book_insert"} })

\* book_appointment, steps 1 and 2: parse and localize, then the conflict query.
book_appointment_check(p, appt, out) ==
    /\ Free(p)
    /\ out \in {"ok", "raise"}
    /\ LET d == appt.appointment_date
           t == appt.appointment_time
       IN  IF strptime_raises(d, t)
           THEN Finish(p, "book", appt, <<"parse">>,
                       [status |-> 400, detail |-> <<"Invalid date or time format">>],
                       None)
           ELSE LET start_dt == strptime(d, t)
                    existing_appt == SelectAppointments(appointments, d, t)
                    steps == <<"parse", "select">>
                IN  /\ (out = "ok" /\ ~SlotTaken(existing_appt))
                           => /\ Len(appointments) + BookInFlight < MaxAppts
                              /\ Len(calendar) + BookInFlight < MaxAppts
                    /\ IF out = "raise"
                       THEN Finish(p, "book", appt, steps,
                                   book_appointment_except(StoreErrorText),
                                   <<StoreErrorText>>)
                       ELSE IF SlotTaken(existing_appt)
                       THEN Finish(p, "book", appt, steps,
                                   ConflictResponse(appt, start_dt), None)
                       ELSE call' = [call EXCEPT ![p] =
                                       [IdleCall EXCEPT !.handler = "book",
                                            !.pc = "book_calendar", !.req = appt,
                                            !.steps = steps,
                                            !.existing = existing_appt]]
    /\ UNCHANGED <<users, appointments, calendar>>

\* Mutant: the event insert without its try/except: its exception leaves
\* the handler.
events_insert_Unguarded(service, c, next_id) ==
    IF service = None
    THEN [google_event_id |-> None, created |-> FALSE, escapes |-> FALSE]
    ELSE IF c = "created"
    THEN [google_event_id |-> next_id, created |-> TRUE, escapes |-> FALSE]
    ELSE [google_event_id |-> None, created |-> FALSE, escapes |-> TRUE]

\* if service: try: event = service.events().insert(...).execute();
\* google_event_id = event.get("id"); except Exception: (logged, swallowed).
\* escapes: whether an exception leaves the block.
events_insert(service, c, next_id) ==
    IF service = None
    THEN [google_event_id |-> None, created |-> FALSE, escapes |-> FALSE]
    ELSE IF c = "created"
    THEN [google_event_id |-> next_id, created |-> TRUE, escapes |-> FALSE]
    ELSE [google_event_id |-> None, created |-> FALSE, escapes |-> FALSE]

\* book_appointment, steps 3 and 4: the calendar service and the event insert.
\* An exception that left the block would reach the handler's own
\* except Exception.
book_appointment_calendar(p, c) ==
    /\ call[p].pc = "book_calendar"
    /\ LET appt == call[p].req
           start_dt == strptime(appt.appointment_date, appt.appointment_time)
           service == get_calendar_service(c)
           event == [id |-> <<"evt", Len(calendar) + 1>>,
                     start |-> start_dt, end |-> PlusOneHour(start_dt)]
           res == events_insert(service, c, event.id)
           steps == Append(call[p].steps, "calendar")
       IN  /\ calendar' = IF res.created THEN Append(calendar, event) ELSE calendar
           /\ IF res.escapes
              THEN call' = [call EXCEPT ![p].pc = "done", ![p].cal = c,
                                        ![p].steps = steps,
                                        ![p].resp = book_appointment_except("Google Calendar Error"),
                                        ![p].exc = <<"Google Calendar Error">>]
              ELSE call' = [call EXCEPT ![p].pc = "book_insert", ![p].cal = c,
                                        ![p].steps = steps,
                                        ![p].google_event_id = res.google_event_id]
    /\ UNCHANGED <<users, appointments>>

\* book_appointment, step 5: the insert and the response.
book_appointment_insert(p, out) ==
    /\ call[p].pc = "book_insert"
    /\ LET appt == call[p].req
           gid == call[p].google_event_id
           steps == Append(call[p].steps, "insert")
           appt_data == [id |-> Len(appointments) + 1,
                         appointment_date |-> appt.appointment_date,
                         appointment_time |-> appt.appointment_time,
                         google_event_id |-> gid,
                         status |-> AppointmentStatus(gid)]
           done(r, e) == call' = [call EXCEPT ![p].pc = "done", ![p].steps = steps,
                                              ![p].resp = r, ![p].exc = e]
       IN  IF out = "raise"
           THEN /\ done(book_appointment_except(StoreErrorText), <<StoreErrorText>>)
                /\ UNCHANGED appointments
           ELSE IF out = "nodata"
           THEN /\ done([status |-> 500,
                         detail |-> <<"Failed to save appointment">>], None)
                /\ UNCHANGED appointments
           ELSE /\ appointments' = Append(appointments, appt_data)
                /\ done([status |-> 200, message |-> "Appointment booked successfully",
                         google_event_link |-> EventLink(gid)], None)
    /\ UNCHANGED <<users, calendar>>

\* The administrative action outside this service that cancels an appointment.
AdminCancel(i) ==
    /\ i \in DOMAIN appointments
    /\ appointments[i].status # "cancelled"
    /\ appointments' = [appointments EXCEPT ![i].status = "cancelled"]
    /\ UNCHANGED <<users, calendar, call>>

\* ---------------------------------------------------------- specifications
Register(p, outs) ==
    \/ \E user \in UserRegisterInputs, out \in outs : register_user_select(p, user, out)
    \/ \E out \in outs : register_user_insert(p, out)

Login(p, outs) ==
    \E user \in UserLoginInputs, out \in outs : login_user(p, user, out)

Book(p, outs) ==
    \/ \E appt \in AppointmentInputs, out \in outs : book_appointment_check(p, appt, out)
    \/ \E c \in CalendarOutcomes : book_appointment_calendar(p, c)
    \/ \E out \in outs : book_appointment_insert(p, out)

Cancel == \E i \in 1..MaxAppts : AdminCancel(i)

\* Concurrent requests against a store that answers every call.
NextAccounts == \E p \in Procs : Register(p, StoreOk) \/ Login(p, StoreOk)
SpecAccounts == Init /\ [][NextAccounts]_vars

NextBooking == (\E p \in Procs : Book(p, StoreOk)) \/ Cancel
SpecBooking == Init /\ [][NextBooking]_vars

\* One request at a time against a store that answers every call.
NextAccountsSeq == Register(1, StoreOk) \/ Login(1, StoreOk)
SpecAccountsSeq == Init /\ [][NextAccountsSeq]_vars

NextBookingSeq == Book(1, StoreOk) \/ Cancel
SpecBookingSeq == Init /\ [][NextBookingSeq]_vars

\* One request at a time against a store whose calls may fail.
NextFault == Register(1, StoreAny) \/ Login(1, StoreAny) \/ Book(1, StoreAny)
SpecFault == Init /\ [][NextFault]_vars

\* The whole service: every handler, concurrently.  The handlers of the two
\* tables share no state, so the specifications above are its restrictions
\* to one table each.
Next ==
    \/ \E p \in Procs : Register(p, StoreOk) \/ Login(p, StoreOk) \/ Book(p, StoreOk)
    \/ Cancel
Spec == Init /\ [][Next]_vars

\* ------------------------------------------------------------------ claims
\* The step of slot p that takes a new request for handler h.
Begins(p, h) == Free(p) /\ call'[p] # call[p] /\ call'[p].handler = h

\* A row of the appointments table holds the slot (d, t).
Occupied(d, t) ==
    \E i \in DOMAIN appointments :
        /\ appointments[i].appointment_date = d
        /\ appointments[i].appointment_time = t
        /\ appointments[i].status \in {"confirmed", "pending"}

IsConflictError(r, t) ==
    /\ r.status = 400
    /\ r.detail[1] = "Time slot" /\ r.detail[2] = t
    /\ r.detail[3] = "is already booked. Please try"

\* C1: in a sequential run, a book call for a (date, time) pair that a
\* confirmed or pending row holds fails with ConflictError (400), naming the
\* requested time, and inserts no row; a book call for a parseable pair that
\* no such row holds (none, or only cancelled ones) passes the conflict
\* check, and its insert adds the row and answers 200.
C1_BookingConflictRule ==
    [][\A p \in Procs :
        /\ Begins(p, "book") =>
             LET appt == call'[p].req
                 d == appt.appointment_date
                 t == appt.appointment_time
             IN  /\ Occupied(d, t) =>
                        /\ call'[p].pc = "done"
                        /\ IsConflictError(call'[p].resp, t)
                        /\ appointments' = appointments
                 /\ (~Occupied(d, t) /\ call'[p].resp.status # 400) =>
                        call'[p].pc = "book_calendar"
                 /\ (~Occupied(d, t) /\ call'[p].pc = "done") =>
                        call'[p].resp.detail = <<"Invalid date or time format">>
        /\ (call[p].pc = "book_insert" /\ call'[p].pc = "done") =>
             /\ call'[p].resp.status = 200
             /\ Len(appointments') = Len(appointments) + 1
             /\ appointments'[Len(appointments')].appointment_date
                    = call[p].req.appointment_date
             /\ appointments'[Len(appointments')].appointment_time
                    = call[p].req.appointment_time
             /\ appointments'[Len(appointments')].status # "cancelled"
      ]_vars

\* C1's case: a slot booked, cancelled, booked again, and a further book call
\* for it refused.
C1_Witness ==
    \E i, j \in DOMAIN appointments :
        /\ i < j
        /\ appointments[i].appointment_date = appointments[j].appointment_date
        /\ appointments[i].appointment_time = appointments[j].appointment_time
        /\ appointments[i].status = "cancelled"
        /\ appointments[j].status # "cancelled"
        /\ call[1].handler = "book" /\ call[1].pc = "done"
        /\ call[1].req.appointment_date = appointments[j].appointment_date
        /\ call[1].req.appointment_time = appointments[j].appointment_time
        /\ call[1].resp.status = 400

\* C2: in every reachable state, concurrent book requests included, at most
\* one row that is not cancelled exists per (appointment_date,
\* appointment_time) pair.
C2_OneActiveRowPerSlot ==
    \A i, j \in DOMAIN appointments :
        (/\ i # j
         /\ appointments[i].appointment_date = appointments[j].appointment_date
         /\ appointments[i].appointment_time = appointments[j].appointment_time
         /\ appointments[i].status # "cancelled")
            => appointments[j].status = "cancelled"

CalendarFailures == {"no_file", "auth_error", "insert_error"}

\* C3: when the calendar fails during a book call on a free slot (no service
\* account file, credentials that do not load, or an event insert that
\* raises), the call goes on to the insert, the row it inserts is pending
\* with a null event reference, no event is created, and the response is
\* the success message with a null google_event_link.
C3_CalendarFailureIsolated ==
    [][\A p \in Procs :
        /\ (call[p].pc = "book_calendar" /\ call'[p] # call[p]
                /\ call'[p].cal \in CalendarFailures) =>
             /\ call'[p].pc = "book_insert"
             /\ calendar' = calendar
        /\ (call[p].pc = "book_insert" /\ call'[p] # call[p]
                /\ call[p].cal \in CalendarFailures) =>
             /\ call'[p].pc = "done"
             /\ call'[p].resp = [status |-> 200,
                                 message |-> "Appointment booked successfully",
                                 google_event_link |-> None]
             /\ Len(appointments') = Len(appointments) + 1
             /\ appointments'[Len(appointments')].status = "pending"
             /\ appointments'[Len(appointments')].google_event_id = None
             /\ appointments'[Len(appointments')].appointment_date
                    = call[p].req.appointment_date
             /\ appointments'[Len(appointments')].appointment_time
                    = call[p].req.appointment_time
      ]_vars

\* C3's case: a book call answered after the event insert raised.
C3_Witness ==
    /\ call[1].handler = "book" /\ call[1].pc = "done"
    /\ call[1].cal = "insert_error"
    /\ call[1].resp.status = 200
    /\ \E i \in DOMAIN appointments : appointments[i].status = "pending"

\* The rows of the users table whose email is exactly e.
AccountsOf(e) == { i \in DOMAIN users : users[i].email = e }

\* C4: in a sequential run, a register call for an email that an account row
\* already carries fails with 400 "Email already registered", whatever its
\* other field values, and leaves the users table unchanged.
C4_SecondRegisterRejected ==
    [][\A p \in Procs :
        (Begins(p, "register") /\ AccountsOf(call'[p].req.email) # {}) =>
            /\ call'[p].pc = "done"
            /\ call'[p].resp = [status |-> 400,
                                detail |-> <<"Email already registered">>]
            /\ users' = users
      ]_vars

\* C4's case: a register call refused for the email of an account that
\* register created with another password.
C4_Witness ==
    /\ call[1].handler = "register" /\ call[1].pc = "done"
    /\ call[1].resp.status = 400
    /\ \E i \in AccountsOf(call[1].req.email) :
          /\ users[i].password_hash.prefix = "$2b$"
          /\ users[i].password_hash.digest[2] # call[1].req.password

\* C5: in every reachable state, concurrent register calls included, no two
\* account rows carry the same email, compared without regard to case.
C5_EmailUnique ==
    \A i, j \in DOMAIN users :
        i # j => Lower(users[i].email) # Lower(users[j].email)

\* C5, the race alone: no two account rows carry exactly the same email.
C5_ExactEmailUnique ==
    \A i, j \in DOMAIN users : i # j => users[i].email # users[j].email

\* The stored hash h is a hash of password pw.
HashOf(h, pw) == h.prefix = "$2b$" /\ h.digest = <<h.salt, pw>>

AuthError == [status |-> 401, detail |-> <<"Invalid email or password">>]

\* The account a lookup by e returns first (the only one while emails are
\* unique).
StoredAccount(e) == CHOOSE i \in AccountsOf(e) : \A j \in AccountsOf(e) : i <= j

\* C6: login answers 200, with the stored account's id and email, exactly
\* when an account with the submitted email exists and its stored hash is a
\* hash of the submitted password; with no such account, and with an account
\* whose bcrypt hash is of another password, it answers the one same 401
\* "Invalid email or password"; it never changes the users table.
C6_LoginOutcome ==
    [][\A p \in Procs :
        Begins(p, "login") =>
            LET u == call'[p].req
                r == call'[p].resp
                acc == AccountsOf(u.email)
                stored == users[StoredAccount(u.email)]
            IN  /\ users' = users
                /\ call'[p].pc = "done"
                /\ r.status = 200 <=>
                      (acc # {} /\ HashOf(stored.password_hash, u.password))
                /\ r.status = 200 =>
                      (r.user_id = stored.id /\ r.email = stored.email)
                /\ acc = {} => r = AuthError
                /\ (/\ acc # {}
                    /\ stored.password_hash.prefix = "$2b$"
                    /\ ~HashOf(stored.password_hash, u.password))
                      => r = AuthError
      ]_vars

\* C6's case: a login with the wrong password for an existing account,
\* answered 401.
C6_Witness ==
    /\ call[1].handler = "login" /\ call[1].pc = "done"
    /\ call[1].resp = AuthError
    /\ \E i \in AccountsOf(call[1].req.email) :
          /\ users[i].password_hash.prefix = "$2b$"
          /\ ~HashOf(users[i].password_hash, call[1].req.password)

\* C7: a login against an account whose stored password hash is malformed
\* ends as a failed authentication (401), not as an exception or a 500.
C7_MalformedHashIsAuthFailure ==
    \A p \in Procs :
        (/\ call[p].handler = "login" /\ call[p].pc = "done"
         /\ \E i \in AccountsOf(call[p].req.email) :
                users[i].password_hash.prefix # "$2b$")
            => call[p].resp = AuthError

\* C8: in each handler, an unexpected internal failure yields a 500 whose
\* message is generic: it does not carry the text of the internal exception.
C8_InternalErrorsMasked ==
    \A p \in Procs :
        (call[p].pc = "done" /\ call[p].exc # None) =>
            /\ call[p].resp.status = 500
            /\ call[p].resp.detail # call[p].exc

\* C9: the row a book call inserts is confirmed exactly when its event
\* reference is non-null and pending exactly when it is null, never
\* cancelled, and the call's success response carries a link exactly when
\* the event reference is non-null.
C9_StatusFollowsEventReference ==
    [][\A p \in Procs :
        (call[p].pc = "book_insert" /\ Len(appointments') > Len(appointments)
             /\ call'[p] # call[p]) =>
            LET row == appointments'[Len(appointments')]
                r == call'[p].resp
            IN  /\ row.status = "confirmed" <=> row.google_event_id # None
                /\ row.status = "pending" <=> row.google_event_id = None
                /\ row.status # "cancelled"
                /\ r.status = 200
                /\ r.google_event_link # None <=> row.google_event_id # None
      ]_vars

\* C9's case: a book call whose event was created, answered with a link,
\* its row confirmed.
C9_Witness ==
    /\ call[1].handler = "book" /\ call[1].pc = "done"
    /\ call[1].resp.status = 200
    /\ call[1].resp.google_event_link # None
    /\ \E i \in DOMAIN appointments :
          /\ appointments[i].status = "confirmed"
          /\ appointments[i].google_event_id = call[1].google_event_id

BookSteps == <<"parse", "select", "calendar", "insert">>

\* C10: a book call issues its steps in the order parse, conflict check,
\* calendar, insert; one that fails with "Invalid date or time format" has
\* only parsed, one that fails with the conflict error has only parsed and
\* queried, and neither changes the appointments table or the calendar; a
\* calendar event is created only by a call whose conflict check answered
\* while no confirmed or pending row held its slot.
C10_StepOrder ==
    /\ [](\A p \in Procs :
            call[p].handler = "book" =>
                /\ Len(call[p].steps) <= Len(BookSteps)
                /\ call[p].steps = SubSeq(BookSteps, 1, Len(call[p].steps))
                /\ (call[p].pc = "done" /\ call[p].resp.status = 400) =>
                      IF call[p].resp.detail = <<"Invalid date or time format">>
                      THEN call[p].steps = <<"parse">>
                      ELSE call[p].steps = <<"parse", "select">>)
    /\ [][\A p \in Procs :
            /\ Begins(p, "book") =>
                  /\ appointments' = appointments /\ calendar' = calendar
                  /\ call'[p].pc = "book_calendar" =>
                        ~Occupied(call'[p].req.appointment_date,
                                  call'[p].req.appointment_time)
            /\ (call[p].pc = "book_calendar" /\ call'[p] # call[p]) =>
                  appointments' = appointments
            /\ (call[p].pc = "book_insert" /\ call'[p] # call[p]) =>
                  calendar' = calendar
       ]_vars

\* C10's case: a book call refused by the conflict check after another
\* created its calendar event.
C10_Witness ==
    /\ call[1].handler = "book" /\ call[1].pc = "done"
    /\ call[1].resp.status = 400
    /\ call[1].steps = <<"parse", "select">>
    /\ Len(calendar) = 1 /\ Len(appointments) = 1

====
